---- MODULE Spec2Model ----
(***************************************************************************)
(* Model of excel_worker: ExcelProcessor.process (src/excel_processor.py)  *)
(* and the form handler run_processor (src/interface.py).                  *)
(*                                                                         *)
(* Cell values are tagged tuples: <<"str", s>> and <<"none">> (blank).     *)
(* The Cyrillic literals of the source are transliterated to ASCII         *)
(* ("FIO", "Dolzhnost", "Otdel", "Data najma", "Zarplata").                *)
(* A cell is a record [value, row, column], as an openpyxl Cell carries    *)
(* its coordinates.  A Record (a Python dict) is a sequence of             *)
(* <<key, cell>> pairs with unique keys, in insertion order.               *)
(***************************************************************************)
EXTENDS Integers, Sequences, FiniteSets, TLC

VARIABLES
    field_name,   \* self.field_name
    value,        \* self.value
    n_sheets,     \* len(self.wb.sheetnames)
    pc,           \* position of process(): loop, filter, write, written, done, failed
    sheet_idx,    \* number of worksheets the for loop has started
    sheet,        \* self.wb[sheet_name]: the rows of cell values of the current worksheet
    fieldnames,   \* self.fieldnames
    raw_data,     \* the table rows the raw_data generator has not yielded yet
    first_row,    \* the Record peeked from filtered_data (<<>> before the peek)
    ws,           \* the worksheet of new_wb being written
    prepared,     \* the Records prepared_data has yielded to the writing loop
    error,        \* the exception that left process(), "" if none
    saved,        \* number of times new_wb.save ran to completion
    form,         \* the contents of the Entry widgets of the form
    dialog,       \* the message box run_processor has shown, "" if none
    constructed   \* whether run_processor obtained an ExcelProcessor

vars == <<field_name, value, n_sheets, pc, sheet_idx, sheet, fieldnames,
          raw_data, first_row, ws, prepared, error, saved, form, dialog,
          constructed>>

procVars == <<field_name, value, n_sheets, pc, sheet_idx, sheet, fieldnames,
              raw_data, first_row, ws, prepared, error, saved>>

formVars == <<form, dialog, constructed>>

(***************************************************************************)
(* Bounds                                                                  *)
(***************************************************************************)
MaxCells == 4

MaxSheets == 2

(***************************************************************************)
(* Values and conversions                                                  *)
(***************************************************************************)
StrVal(s) == <<"str", s>>

None == <<"none">>

WANTED_FIELDS == <<"FIO", "Dolzhnost", "Otdel", "Data najma", "Zarplata">>

\* str(cell.value)
PyStr(v) ==
    CASE v[1] = "str" -> v[2]
      [] OTHER -> "None"

\* str.lower on the strings of the model
Lower(s) ==
    CASE s = "FIO" -> "fio"
      [] s = "Dolzhnost" -> "dolzhnost"
      [] s = "Otdel" -> "otdel"
      [] s = "Data najma" -> "data najma"
      [] s = "Zarplata" -> "zarplata"
      [] OTHER -> s

\* whether x.lower() exists: only str has the method
HasLower(v) == v[1] = "str"

\* cell.value in self.WANTED_FIELDS
InWanted(v) == \E i \in 1..Len(WANTED_FIELDS) : v = StrVal(WANTED_FIELDS[i])

(***************************************************************************)
(* Inputs                                                                  *)
(***************************************************************************)
CellValues == {StrVal("FIO"), StrVal("Dolzhnost"), StrVal("fio"), None}

FieldNames == {"fio", "Zarplata"}

Values == {"fio", "None"}

RowsOfLen(k) == [1..k -> CellValues]

RECURSIVE SheetsOfSize(_)
SheetsOfSize(n) ==
    IF n = 0 THEN {<<>>}
    ELSE UNION {{<<row>> \o s : row \in RowsOfLen(k), s \in SheetsOfSize(n - k)} : k \in 1..n}

Sheets == UNION {SheetsOfSize(n) : n \in 0..MaxCells}

(***************************************************************************)
(* The generators of ExcelProcessor                                        *)
(***************************************************************************)
\* sheet.iter_rows(): rows of cells with their coordinates
IterRows(sh) ==
    [r \in 1..Len(sh) |->
        [c \in 1..Len(sh[r]) |-> [value |-> sh[r][c], row |-> r, column |-> c]]]

RowValues(row) == [c \in 1..Len(row) |-> row[c].value]

AnyWanted(row) == \E c \in 1..Len(row) : InWanted(row[c].value)

\* variant: is_table is recomputed for every row instead of latched
RECURSIVE RowsOfTableFrom_NoLatch(_, _)
RowsOfTableFrom_NoLatch(rows, is_table) ==
    IF rows = <<>> THEN <<>>
    ELSE (IF AnyWanted(Head(rows)) THEN <<Head(rows)>> ELSE <<>>)
         \o RowsOfTableFrom_NoLatch(Tail(rows), is_table)

RECURSIVE RowsOfTableFrom(_, _)
RowsOfTableFrom(rows, is_table) ==
    IF rows = <<>> THEN <<>>
    ELSE LET flag == is_table \/ AnyWanted(Head(rows))
         IN  (IF flag THEN <<Head(rows)>> ELSE <<>>) \o RowsOfTableFrom(Tail(rows), flag)

\* variant: is_table starts as True
rows_of_table_StartsTrue(sh) == RowsOfTableFrom(IterRows(sh), TRUE)

rows_of_table(sh) == RowsOfTableFrom(IterRows(sh), FALSE)

RECURSIVE MetaDataFrom(_, _)
MetaDataFrom(rows, is_table) ==
    IF rows = <<>> THEN <<>>
    ELSE LET flag == is_table \/ AnyWanted(Head(rows))
         IN  (IF ~flag THEN <<Head(rows)>> ELSE <<>>) \o MetaDataFrom(Tail(rows), flag)

get_meta_data(sh) == MetaDataFrom(IterRows(sh), FALSE)

\* dict operations
DictHas(d, k) == \E i \in 1..Len(d) : d[i][1] = k

DictGet(d, k) == d[CHOOSE i \in 1..Len(d) : d[i][1] = k][2]

DictSet(d, k, c) ==
    IF DictHas(d, k)
    THEN [i \in 1..Len(d) |-> IF d[i][1] = k THEN <<k, c>> ELSE d[i]]
    ELSE Append(d, <<k, c>>)

DictPop(d, k) == SelectSeq(d, LAMBDA p : p[1] # k)

DictKeys(d) == {d[i][1] : i \in 1..Len(d)}

DictValues(d) == [i \in 1..Len(d) |-> d[i][2]]

Min(a, b) == IF a < b THEN a ELSE b

RECURSIVE ZipDict(_, _, _)
ZipDict(names, row, n) ==
    IF n = 0 THEN <<>>
    ELSE DictSet(ZipDict(names, row, n - 1), names[n], row[n])

\* one step of _format_data: {field_name: cell for field_name, cell in zip(fieldnames, row)}
format_data(names, row) == ZipDict(names, row, Min(Len(names), Len(row)))

\* variant: the loop over self.fieldnames ends after its first field
PopUnwanted_FirstOnly(names, rec) ==
    IF names = <<>> THEN rec
    ELSE IF InWanted(Head(names)) THEN rec ELSE DictPop(rec, Head(names))

RECURSIVE PopUnwanted(_, _)
PopUnwanted(names, rec) ==
    IF names = <<>> THEN rec
    ELSE PopUnwanted(Tail(names),
                     IF InWanted(Head(names)) THEN rec ELSE DictPop(rec, Head(names)))

\* one step of _del_fields
del_fields(names, rec) == PopUnwanted(names, rec)

\* field = list(filter(lambda x: x.lower() == self.field_name.lower(), self.fieldnames))
FieldList(names, fname) ==
    SelectSeq(names, LAMBDA x : HasLower(x) /\ Lower(x[2]) = Lower(fname))

LowerRaises(names) == \E i \in 1..Len(names) : ~HasLower(names[i])

\* the loop of _filter_data over the rows _format_data yields, up to its next
\* yield, its exhaustion or the exception that leaves it
RECURSIVE FilterLoop(_, _, _, _)
FilterLoop(names, key, val, rows) ==
    IF rows = <<>> THEN [kind |-> "stop", rest |-> <<>>]
    ELSE LET rec == format_data(names, Head(rows))
         IN  IF ~DictHas(rec, key)
             THEN [kind |-> "raise", exc |-> "KeyError", rest |-> Tail(rows)]
             ELSE IF PyStr(DictGet(rec, key).value) = val
                  THEN [kind |-> "yield", row |-> rec, rest |-> Tail(rows)]
                  ELSE FilterLoop(names, key, val, Tail(rows))

\* next(filtered_data) on a generator that has not started
filter_data_start(names, fname, val, rows) ==
    IF LowerRaises(names) THEN [kind |-> "raise", exc |-> "AttributeError", rest |-> rows]
    ELSE IF FieldList(names, fname) = <<>>
         THEN [kind |-> "raise", exc |-> "FieldNotFound", rest |-> rows]
         ELSE FilterLoop(names, FieldList(names, fname)[1], val, rows)

\* next(filtered_data) on a generator suspended at its yield
filter_data_resume(names, fname, val, rows) ==
    FilterLoop(names, FieldList(names, fname)[1], val, rows)

\* the worksheet row a Record was built from (cell.row of its cells)
SrcRow(rec) == rec[1][2].row

\* an item of prepared_data: the projected Record and the row it came from
Prepared(names, rec) == [src |-> SrcRow(rec), rec |-> del_fields(names, rec)]

\* for row in prepared_data: ws.append(...), from the peeked Record on
RECURSIVE WriteLoop(_, _, _, _, _)
WriteLoop(names, fname, val, rows, acc) ==
    LET r == filter_data_resume(names, fname, val, rows)
    IN  IF r.kind = "yield"
        THEN WriteLoop(names, fname, val, r.rest, Append(acc, Prepared(names, r.row)))
        ELSE [recs |-> acc, kind |-> r.kind,
              exc |-> IF r.kind = "raise" THEN r.exc ELSE "", rest |-> r.rest]

\* fields = list(field for field in self.fieldnames if field in self.WANTED_FIELDS)
WantedHeader(names) == SelectSeq(names, InWanted)

EmptySheet == [meta |-> <<>>, fields |-> <<>>, rows |-> <<>>]

(***************************************************************************)
(* process()                                                               *)
(***************************************************************************)
Init ==
    /\ field_name \in FieldNames
    /\ value \in Values
    /\ n_sheets \in 1..MaxSheets
    /\ pc = "loop"
    /\ sheet_idx = 0
    /\ sheet = <<>>
    /\ fieldnames = <<>>
    /\ raw_data = <<>>
    /\ first_row = <<>>
    /\ ws = EmptySheet
    /\ prepared = <<>>
    /\ error = ""
    /\ saved = 0
    /\ form = [file |-> "", attr |-> "", value |-> "", output |-> "", fields |-> ""]
    /\ dialog = ""
    /\ constructed = TRUE

Fail(exc) ==
    /\ pc' = "failed"
    /\ error' = exc

\* lines 65-77: the next worksheet; its table rows and its header
NextSheet ==
    /\ pc = "loop"
    /\ sheet_idx < n_sheets
    /\ \E sh \in Sheets :
        /\ sheet' = sh
        /\ sheet_idx' = sheet_idx + 1
        /\ ws' = EmptySheet
        /\ prepared' = <<>>
        /\ first_row' = <<>>
        /\ IF rows_of_table(sh) = <<>>
           THEN /\ Fail("TablesNotFound")
                /\ UNCHANGED <<fieldnames, raw_data>>
           ELSE /\ fieldnames' = RowValues(Head(rows_of_table(sh)))
                /\ raw_data' = Tail(rows_of_table(sh))
                /\ pc' = "filter"
                /\ error' = error
    /\ UNCHANGED <<field_name, value, n_sheets, saved>>
    /\ UNCHANGED formVars

\* lines 78-85: the peek of the first filtered Record
FilterData ==
    /\ pc = "filter"
    /\ LET r == filter_data_start(fieldnames, field_name, value, raw_data)
       IN  /\ raw_data' = r.rest
           /\ IF r.kind = "yield"
              THEN /\ first_row' = r.row
                   /\ pc' = "write"
                   /\ error' = error
              ELSE /\ Fail(IF r.kind = "stop" THEN "RowsNotFound" ELSE r.exc)
                   /\ first_row' = first_row
    /\ UNCHANGED <<field_name, value, n_sheets, sheet_idx, sheet, fieldnames, ws,
                   prepared, saved>>
    /\ UNCHANGED formVars

\* lines 87-118: metadata, header row and the prepared Records are written
WriteSheet ==
    /\ pc = "write"
    /\ LET w == WriteLoop(fieldnames, field_name, value, raw_data,
                          <<Prepared(fieldnames, first_row)>>)
       IN  /\ prepared' = w.recs
           /\ raw_data' = w.rest
           /\ ws' = [meta |-> [i \in 1..Len(get_meta_data(sheet)) |->
                                  RowValues(get_meta_data(sheet)[i])],
                     fields |-> WantedHeader(fieldnames),
                     rows |-> [i \in 1..Len(w.recs) |-> RowValues(DictValues(w.recs[i].rec))]]
           /\ IF w.kind = "raise"
              THEN Fail(w.exc)
              ELSE /\ pc' = "written"
                   /\ error' = error
    /\ UNCHANGED <<field_name, value, n_sheets, sheet_idx, sheet, fieldnames,
                   first_row, saved>>
    /\ UNCHANGED formVars

\* line 65: the for statement takes control again.  The names bound in the
\* loop body (sheet, ws, raw_data, first_row, prepared_data) and
\* self.fieldnames are rebound before they are read again, so they are reset.
EndIteration ==
    /\ pc = "written"
    /\ pc' = "loop"
    /\ sheet' = <<>>
    /\ fieldnames' = <<>>
    /\ raw_data' = <<>>
    /\ first_row' = <<>>
    /\ ws' = EmptySheet
    /\ prepared' = <<>>
    /\ UNCHANGED <<field_name, value, n_sheets, sheet_idx, error, saved>>
    /\ UNCHANGED formVars

\* variant: the save is inside the for loop
Save_InLoop ==
    /\ pc = "loop"
    /\ sheet_idx >= 1
    /\ saved = 0
    /\ saved' = 1
    /\ pc' = IF sheet_idx = n_sheets THEN "done" ELSE "loop"
    /\ UNCHANGED <<field_name, value, n_sheets, sheet_idx, sheet, fieldnames,
                   raw_data, first_row, ws, prepared, error>>
    /\ UNCHANGED formVars

\* lines 119-125: new_wb.save(self.output_path); the file may be locked
Save ==
    /\ pc = "loop"
    /\ sheet_idx = n_sheets
    /\ \E locked \in BOOLEAN :
        IF locked
        THEN /\ Fail("PermissionError")
             /\ saved' = saved
        ELSE /\ saved' = saved + 1
             /\ pc' = "done"
             /\ error' = error
    /\ UNCHANGED <<field_name, value, n_sheets, sheet_idx, sheet, fieldnames,
                   raw_data, first_row, ws, prepared>>
    /\ UNCHANGED formVars

Next == NextSheet \/ FilterData \/ WriteSheet \/ EndIteration \/ Save

Spec == Init /\ [][Next]_vars

(***************************************************************************)
(* run_processor (the form)                                                *)
(***************************************************************************)
\* what the user may have typed into an Entry
FileEntries == {"", " ", " in.xlsx "}

OutputEntries == {"", " ", "out"}

AttrEntries == {"", " ", " FIO"}

ValueEntries == {"", " ", "fio "}

FieldsEntries == {"", "FIO, Otdel"}

\* str.strip on the strings of the form
Strip(s) ==
    CASE s = " " -> ""
      [] s = " in.xlsx " -> "in.xlsx"
      [] s = " FIO" -> "FIO"
      [] s = "fio " -> "fio"
      [] OTHER -> s

\* the parameters of ExcelProcessor.__init__ (besides self)
InitParameters == {"filepath", "field_name", "value", "output_path"}

\* the keyword arguments of the call in run_processor
CallKeywords(filepath, attr, val, output_file, fields) ==
    [filepath |-> filepath, field_name |-> attr, value |-> val,
     output_path |-> output_file, wanted_fields |-> fields]

\* binding of keyword arguments to parameters: an unexpected keyword is a TypeError
BindRaises(kwargs) == \E k \in DOMAIN kwargs : k \notin InitParameters

FormInit ==
    /\ form \in [file : FileEntries, attr : AttrEntries, value : ValueEntries,
                  output : OutputEntries, fields : FieldsEntries]
    /\ dialog = ""
    /\ constructed = FALSE
    /\ pc = "form"
    /\ field_name = ""
    /\ value = ""
    /\ n_sheets = 1
    /\ sheet_idx = 0
    /\ sheet = <<>>
    /\ fieldnames = <<>>
    /\ raw_data = <<>>
    /\ first_row = <<>>
    /\ ws = EmptySheet
    /\ prepared = <<>>
    /\ error = ""
    /\ saved = 0

\* leaves run_processor with a message box shown and no processor
Show(msg) ==
    /\ dialog' = msg
    /\ pc' = "returned"
    /\ UNCHANGED <<constructed, field_name, value, n_sheets>>

RunProcessor ==
    /\ pc = "form"
    /\ LET filepath == Strip(form.file)
           attr == Strip(form.attr)
           val == Strip(form.value)
           output_file == Strip(form.output)
           kwargs == CallKeywords(filepath, attr, val, output_file, form.fields)
       IN  IF filepath = "" THEN Show("showerror: no file")
           ELSE IF output_file = "" THEN Show("showerror: no output file")
           ELSE IF attr = "" THEN Show("showerror: no field name")
           ELSE IF val = "" THEN Show("showerror: no value")
           ELSE IF BindRaises(kwargs) THEN Show("showerror: TypeError")
           ELSE \E opened \in BOOLEAN, n \in 1..MaxSheets :
                   IF ~opened THEN Show("showerror: PermissionError")
                   ELSE /\ constructed' = TRUE
                        /\ field_name' = kwargs.field_name
                        /\ value' = kwargs.value
                        /\ n_sheets' = n
                        /\ pc' = "loop"
                        /\ dialog' = dialog
    /\ UNCHANGED <<form, sheet_idx, sheet, fieldnames, raw_data, first_row, ws,
                   prepared, error, saved>>

FormNext == RunProcessor

FormSpec == FormInit /\ [][FormNext]_vars

(***************************************************************************)
(* Properties                                                              *)
(***************************************************************************)
Wanted == {StrVal(WANTED_FIELDS[i]) : i \in 1..Len(WANTED_FIELDS)}

TableRows == rows_of_table(sheet)

HasTable == TableRows # <<>>

Header == RowValues(Head(TableRows))

DataRows == Tail(TableRows)

SheetDone == pc \in {"write", "written", "failed"}

\* positions of the header names that equal the field name case-insensitively
MatchCols(fname) ==
    {c \in 1..Len(Header) : Header[c][1] = "str" /\ Lower(Header[c][2]) = Lower(fname)}

FirstMatchCol(fname) == CHOOSE c \in MatchCols(fname) : \A d \in MatchCols(fname) : c <= d

SrcRows(recs) == [i \in 1..Len(recs) |-> recs[i].src]

\* C1: the rows get_meta_data yields followed by the rows rows_of_table yields
\* are the rows of the worksheet, in order; the split is at the first row with
\* a cell in WANTED_FIELDS, and the header and unread table rows of process()
\* are exactly the rows from that row on.
C1_Partition ==
    LET all == IterRows(sheet)
        meta == get_meta_data(sheet)
        tab == rows_of_table(sheet)
    IN  /\ meta \o tab = all
        /\ \A i \in 1..Len(meta) : ~AnyWanted(all[i])
        /\ tab # <<>> => AnyWanted(all[Len(meta) + 1])
        /\ pc = "filter" => <<fieldnames>> \o [i \in 1..Len(raw_data) |-> RowValues(raw_data[i])]
                              = SubSeq(sheet, Len(meta) + 1, Len(sheet))
        /\ pc = "written" => ws.meta = SubSeq(sheet, 1, Len(meta))

C1_Witness ==
    /\ pc = "written"
    /\ Len(ws.meta) >= 1
    /\ Len(TableRows) >= 2
    /\ ~AnyWanted(TableRows[2])

\* C2: when the field name matches a header name case-insensitively, the
\* Records written are exactly those of the data rows whose Record has, under
\* the first matching header, a cell whose string form equals the value, in
\* row order.
C2_WrittenIffEqual ==
    (pc \in {"written", "failed"} /\ HasTable /\ MatchCols(field_name) # {}) =>
        LET key == Header[FirstMatchCol(field_name)]
            hit(row) == /\ DictHas(format_data(Header, row), key)
                        /\ PyStr(DictGet(format_data(Header, row), key).value) = value
            expected == SelectSeq(DataRows, hit)
        IN  SrcRows(prepared) = [i \in 1..Len(expected) |-> expected[i][1].row]

\* C3 (as stated): the key set of every projected Record is the intersection
\* of WANTED_FIELDS with the set of header names.
C3_KeysAreWantedHeader ==
    \A i \in 1..Len(prepared) :
        DictKeys(prepared[i].rec) = Wanted \cap {fieldnames[c] : c \in 1..Len(fieldnames)}

\* C3 (amended): the key set of every projected Record is the intersection of
\* WANTED_FIELDS with the names of the header columns for which its row has a
\* cell.
C3_KeysAreWantedPresent ==
    \A i \in 1..Len(prepared) :
        DictKeys(prepared[i].rec) =
            Wanted \cap {fieldnames[c] : c \in 1..Min(Len(fieldnames), Len(sheet[prepared[i].src]))}

C3_Witness ==
    /\ pc = "written"
    /\ \E i \in 1..Len(prepared) :
        /\ Len(sheet[prepared[i].src]) < Len(fieldnames)
        /\ DictKeys(prepared[i].rec) # Wanted \cap {fieldnames[c] : c \in 1..Len(fieldnames)}
    /\ \E c \in 1..Len(fieldnames) : ~InWanted(fieldnames[c])

\* C4: with a table detected and no header name equal to the field name
\* case-insensitively, process fails with FieldNotFound and nothing else.
C4_FieldNotFound ==
    (SheetDone /\ HasTable /\ MatchCols(field_name) = {}) =>
        (pc = "failed" /\ error = "FieldNotFound")

\* C5: with a table detected and a header name matching the field name, if no
\* data row has in that column a value whose string form equals the value,
\* process fails with RowsNotFound.
C5_RowsNotFound ==
    (/\ SheetDone
     /\ HasTable
     /\ MatchCols(field_name) # {}
     /\ \A i \in 1..Len(DataRows) :
            \/ Len(DataRows[i]) < FirstMatchCol(field_name)
            \/ PyStr(DataRows[i][FirstMatchCol(field_name)].value) # value)
    => (pc = "failed" /\ error = "RowsNotFound")

\* C6: when process reaches a worksheet none of whose rows has a cell in
\* WANTED_FIELDS, it fails with TablesNotFound.
C6_TablesNotFound ==
    [][(sheet_idx' = sheet_idx + 1 /\ \A r \in 1..Len(sheet') : ~AnyWanted(IterRows(sheet')[r]))
        => (pc' = "failed" /\ error' = "TablesNotFound")]_vars

C6_Witness ==
    /\ pc = "failed"
    /\ error = "TablesNotFound"
    /\ sheet_idx = 2
    /\ Len(sheet) >= 2

\* C7: the file is saved at most once, only after every worksheet has been
\* processed, and never when a worksheet failed.
C7_SaveOnlyAfterAllSheets ==
    /\ saved <= 1
    /\ saved = 1 => (sheet_idx = n_sheets /\ error = "" /\ pc = "done")
    /\ error # "" => saved = 0

C7_Witness ==
    /\ pc = "failed"
    /\ sheet_idx >= 2
    /\ error \in {"TablesNotFound", "FieldNotFound", "RowsNotFound"}
    /\ saved = 0

\* C8: a data row with fewer cells than the header gives a Record with exactly
\* the leading header columns, and the pipeline raises no error on that row.
C8_ShortRowNoError ==
    (SheetDone /\ HasTable) =>
        \A i \in 1..Len(DataRows) :
            Len(DataRows[i]) < Len(Header) =>
                /\ DictKeys(format_data(Header, DataRows[i])) =
                       {Header[c] : c \in 1..Len(DataRows[i])}
                /\ error # "KeyError"

\* the columns of the header whose name is in WANTED_FIELDS, in order
WantedCols == SelectSeq([c \in 1..Len(fieldnames) |-> c], LAMBDA c : InWanted(fieldnames[c]))

\* C9: the written header row is the wanted header names in header order, and
\* every written data row has one value per written header name, the i-th
\* being the cell of the source row in the column of the i-th written name.
C9_RowsAligned ==
    pc = "written" =>
        /\ ws.fields = [j \in 1..Len(WantedCols) |-> fieldnames[WantedCols[j]]]
        /\ \A i \in 1..Len(ws.rows) :
            /\ Len(ws.rows[i]) = Len(ws.fields)
            /\ \A j \in 1..Len(ws.rows[i]) :
                /\ WantedCols[j] <= Len(sheet[prepared[i].src])
                /\ ws.rows[i][j] = sheet[prepared[i].src][WantedCols[j]]

\* C10: with the four entries non-empty, run_processor obtains an
\* ExcelProcessor; the error dialog is never due to the constructor call.
C10_ConstructedFromForm ==
    (/\ pc # "form"
     /\ Strip(form.file) # ""
     /\ Strip(form.output) # ""
     /\ Strip(form.attr) # ""
     /\ Strip(form.value) # "")
    => (dialog # "showerror: TypeError" /\ (dialog = "" => constructed))

====
